---- MODULE Spec2Model ----
(***************************************************************************)
(* Model of the site checker (src/main.rs): one SiteState per monitored    *)
(* site, whose check() fetches the page, diffs it against the stored       *)
(* SiteResult, spawns notify-send when the diff is different and stores    *)
(* the new SiteResult.                                                     *)
(*                                                                         *)
(* An Option<T> is a sequence of length at most one: None is <<>> and      *)
(* Some(v) is <<v>>.  A body (Bytes) is a sequence of bytes, each byte a   *)
(* one-character string; "xFF" and "xFE" stand for the bytes 0xFF and 0xFE,*)
(* which are not valid UTF-8.  A decoded text is a sequence of characters. *)
(***************************************************************************)
EXTENDS Integers, Sequences, FiniteSets, TLC

\* ---------------------------------------------------------------- bounds
\* Number of monitored sites of the model (a prefix of SITES).
NumSites == 2

\* Longest body, in bytes, that a fetch returns (besides ExampleBodies).
MaxLen == 2

\* Most Check messages a site's mailbox holds; a tick beyond it is not taken.
MaxQueue == 1

\* ------------------------------------------------------- static configuration
\* The (name, href) pairs of SITES.
SITES ==
  << [name |-> "Neue Züricher Zeitung", href |-> "https://nzz.ch/"],
     [name |-> "NAU", href |-> "https://www.nau.ch/"],
     [name |-> "20 Minuten", href |-> "https://20min.ch"],
     [name |-> "Admin.ch News", href |-> "https://www.admin.ch/gov/de/start/dokumentation/medienmitteilungen.html?dyn_startDate=01.01.2020&dyn_organization=1"] >>

Sites == 1..NumSites

\* The SiteState whose check cycles Spec explores: the first one of SITES.
CheckedSite == CHOOSE s \in Sites : \A t \in Sites : s <= t

None == <<>>

Some(v) == <<v>>

\* ------------------------------------------------------------ fetch results
\* Status codes a response may carry.
Statuses == {200, 404, 500}

NL == "\n"

InvalidBytes == {"xFF", "xFE"}

Alphabet == {"a", "b", NL, "xFF"}

SeqsUpTo(S, n) == UNION {[1..k -> S] : k \in 0..n}

\* Bodies beyond MaxLen that exercise multi-line diffs and decoding.
ExampleBodies ==
  { <<"A">>,
    <<"xFE">>,
    <<"a", NL, "b">>,
    <<"b", NL, "a">>,
    <<"a", NL, "a", NL>>,
    <<NL, "a", NL, "b">>,
    <<"l", "i", "n", "e", "1", NL, "l", "i", "n", "e", "2">>,
    <<"l", "i", "n", "e", "1", NL, "l", "i", "n", "e", "3">> }

Bodies == SeqsUpTo(Alphabet, MaxLen) \cup ExampleBodies

\* ------------------------------------------------------ library conversions
\* http::StatusCode::canonical_reason for the modelled codes.
canonical_reason(status) ==
  CASE status = 200 -> "OK"
    [] status = 404 -> "Not Found"
    [] status = 500 -> "Internal Server Error"
    [] OTHER -> "<unknown status code>"

\* Variant of StatusDisplay: the number alone.
StatusDisplay_CodeOnly(status) == ToString(status)

\* Display of StatusCode, as used by format!("{}", status): the number, a
\* space and the canonical reason.
StatusDisplay(status) == ToString(status) \o " " \o canonical_reason(status)

\* String::from_utf8_lossy: every invalid byte becomes U+FFFD, every other
\* byte is kept.
ReplacementChar == "<U+FFFD>"

from_utf8_lossy(bytes) ==
  [i \in 1..Len(bytes) |->
     IF bytes[i] \in InvalidBytes THEN ReplacementChar ELSE bytes[i]]

RECURSIVE Concat(_)
\* The string made of the characters of cs.
Concat(cs) == IF cs = <<>> THEN "" ELSE Head(cs) \o Concat(Tail(cs))

RECURSIVE SplitLines(_, _)
\* str::lines over the characters text, cur being the line read so far:
\* each "\n" ends a line; a last line without "\n" counts unless it is empty.
SplitLines(text, cur) ==
  IF text = <<>>
  THEN IF cur = <<>> THEN <<>> ELSE <<Concat(cur)>>
  ELSE IF Head(text) = NL
       THEN <<Concat(cur)>> \o SplitLines(Tail(text), <<>>)
       ELSE SplitLines(Tail(text), Append(cur, Head(text)))

lines(text) == SplitLines(text, <<>>)

RECURSIVE join(_, _)
\* [&str]::join(sep)
join(a, sep) ==
  IF a = <<>> THEN ""
  ELSE IF Len(a) = 1 THEN a[1]
  ELSE a[1] \o sep \o join(Tail(a), sep)

\* ------------------------------------------------- prettydiff::diff_lines
\* lcs::Table::new: table[i][j] is the length of a longest common
\* subsequence of the first i elements of x and the first j elements of y.
Table(x, y) ==
  LET t[i \in 0..Len(x), j \in 0..Len(y)] ==
        IF i = 0 \/ j = 0 THEN 0
        ELSE IF x[i] = y[j] THEN t[i - 1, j - 1] + 1
        ELSE IF t[i, j - 1] >= t[i - 1, j] THEN t[i, j - 1] ELSE t[i - 1, j]
  IN t

RECURSIVE TableIter(_, _, _)
\* The (x, y) index pairs (0-based) the table iterator yields, walking the
\* table from its last cell back to the first.
TableIter(t, i, j) ==
  IF i = 0 \/ j = 0 THEN <<>>
  ELSE IF t[i, j] = t[i - 1, j] THEN TableIter(t, i - 1, j)
  ELSE IF t[i, j] = t[i, j - 1] THEN TableIter(t, i, j - 1)
  ELSE <<[x |-> i - 1, y |-> j - 1]>> \o TableIter(t, i - 1, j - 1)

RECURSIVE MergeMatches(_, _)
\* Table::matches before its reverse(): a pair that directly precedes the
\* last match extends it, any other pair starts a new match.
MergeMatches(pairs, acc) ==
  IF pairs = <<>> THEN acc
  ELSE LET p == Head(pairs)
           n == Len(acc)
       IN IF n > 0 /\ acc[n].x = p.x + 1 /\ acc[n].y = p.y + 1
          THEN MergeMatches(Tail(pairs),
                 [acc EXCEPT ![n] = [x |-> p.x, y |-> p.y, len |-> acc[n].len + 1]])
          ELSE MergeMatches(Tail(pairs),
                 Append(acc, [x |-> p.x, y |-> p.y, len |-> 1]))

Reverse(q) == [i \in 1..Len(q) |-> q[Len(q) + 1 - i]]

\* Table::matches_zero: the matches in ascending order, then a match of
\* length zero at the end of both inputs.
matches_zero(x, y) ==
  Append(Reverse(MergeMatches(TableIter(Table(x, y), Len(x), Len(y)), <<>>)),
         [x |-> Len(x), y |-> Len(y), len |-> 0])

\* x[from..to) with 0-based bounds, as a Rust slice.
Slice(x, from, to) == [k \in 1..(to - from) |-> x[from + k]]

RECURSIVE DiffOps(_, _, _, _, _)
\* basic::diff: the DiffOp sequence for the remaining matches ms, i and j
\* being the positions reached in x and y.
DiffOps(x, y, ms, i, j) ==
  IF ms = <<>> THEN <<>>
  ELSE LET m == Head(ms)
           gap == IF i < m.x /\ j < m.y
                    THEN <<[op |-> "Replace", a |-> Slice(x, i, m.x), b |-> Slice(y, j, m.y)]>>
                  ELSE IF i < m.x
                    THEN <<[op |-> "Remove", a |-> Slice(x, i, m.x), b |-> <<>>]>>
                  ELSE IF j < m.y
                    THEN <<[op |-> "Insert", a |-> Slice(y, j, m.y), b |-> <<>>]>>
                  ELSE <<>>
           eq == IF m.len > 0
                   THEN <<[op |-> "Equal", a |-> Slice(x, m.x, m.x + m.len), b |-> <<>>]>>
                 ELSE <<>>
       IN gap \o eq \o DiffOps(x, y, Tail(ms), m.x + m.len, m.y + m.len)

\* diff_lines(old, new).diff(): the opcodes of the line diff of two texts.
diff_lines(old, new) ==
  LET x == lines(old)
      y == lines(new)
  IN DiffOps(x, y, matches_zero(x, y), 0, 0)

\* ------------------------------------------------------------- render_diff
RECURSIVE render_diff_Prepend(_)
\* Variant of render_diff: each block is put before the text so far.
render_diff_Prepend(ops) ==
  IF ops = <<>> THEN ""
  ELSE LET o == ops[Len(ops)]
           acc == render_diff_Prepend(SubSeq(ops, 1, Len(ops) - 1))
       IN CASE o.op = "Equal" -> acc
            [] o.op = "Insert" -> "Added:\n" \o join(o.a, "\n") \o "\n\n" \o acc
            [] o.op = "Remove" -> "Removed:\n" \o join(o.a, "\n") \o "\n\n" \o acc
            [] o.op = "Replace" ->
                 "Replaced:\n" \o join(o.a, "\n") \o "\nwith\n"
                     \o join(o.b, "\n") \o "\n\n" \o acc

RECURSIVE render_diff(_)
render_diff(ops) ==
  IF ops = <<>> THEN ""
  ELSE LET o == ops[Len(ops)]
           acc == render_diff(SubSeq(ops, 1, Len(ops) - 1))
       IN CASE o.op = "Equal" -> acc
            [] o.op = "Insert" -> acc \o "Added:\n" \o join(o.a, "\n") \o "\n\n"
            [] o.op = "Remove" -> acc \o "Removed:\n" \o join(o.a, "\n") \o "\n\n"
            [] o.op = "Replace" ->
                 acc \o "Replaced:\n" \o join(o.a, "\n") \o "\nwith\n"
                     \o join(o.b, "\n") \o "\n\n"

\* -------------------------------------------------------- SiteResult::diff
SiteResult(status, bytes) == [status |-> status, bytes |-> bytes]

\* The filter of diff(): every opcode but the Equal ones.
NonEqual(ops) == SelectSeq(ops, LAMBDA o : o.op # "Equal")

\* Variant of DiffStatus: reports the old status.
DiffStatus_Old(self, rhs) ==
  IF self.status # rhs.status THEN Some(self.status) ELSE None

DiffStatus(self, rhs) ==
  IF self.status # rhs.status THEN Some(rhs.status) ELSE None

\* Variant of DiffContent: the Equal opcodes are not filtered out.
DiffContent_Unfiltered(self, rhs) ==
  LET old == from_utf8_lossy(self.bytes)
      new == from_utf8_lossy(rhs.bytes)
      d == diff_lines(old, new)
  IN IF d # <<>> THEN Some(render_diff(d)) ELSE None

DiffContent(self, rhs) ==
  LET old == from_utf8_lossy(self.bytes)
      new == from_utf8_lossy(rhs.bytes)
      d == NonEqual(diff_lines(old, new))
  IN IF d # <<>> THEN Some(render_diff(d)) ELSE None

SiteResultDiff(self, rhs) ==
  [status |-> DiffStatus(self, rhs), diff |-> DiffContent(self, rhs)]

\* Variant of is_different: both fields must be present.
is_different_And(d) == d.status # None /\ d.diff # None

is_different(d) == d.status # None \/ d.diff # None

\* ------------------------------------------------------------------ state
VARIABLES
  result,           \* [site -> Option<SiteResult>]: SiteState.result
  pc,               \* [site -> position of the site's check()]
  response_status,  \* [site -> Option<status>]: response.status() of the response in hand
  new_result,       \* [site -> Option<SiteResult>]: the local new_result
  diff,             \* [site -> Option<SiteResultDiff>]: the local diff
  description,      \* [site -> Option<String>]: the local description
  ret,              \* [site -> what check() returned]
  notified,         \* [site -> notify-send processes spawned by the check]
  before,           \* [site -> result when the check was entered]
  lastFetch,        \* [site -> Option<SiteResult>]: the latest successful fetch
  prevFetch,        \* [site -> lastFetch when the check was entered]
  name,             \* [site -> String]: SiteState.name
  href,             \* [site -> String]: SiteState.href
  mailbox,          \* [site -> number of Check messages waiting for the site's actor]
  actor_stopped,    \* [site -> the site's actor no longer handles messages]
  tickDuring,       \* [site -> a tick fired while the running check was in flight]
  second            \* [site -> the check follows one a tick overlapped: "no", "fetched", "failed"]

\* What the steps inside check() leave alone: the other fields of SiteState
\* and the state of the site's actor.
actor == <<name, href, mailbox, actor_stopped, tickDuring, second>>

vars == <<result, pc, response_status, new_result, diff, description, ret,
          notified, before, lastFetch, prevFetch, name, href, mailbox,
          actor_stopped, tickDuring, second>>

\* ------------------------------------------------------ SiteState::check
\* The title of the notification of site s.
Title(s) == name[s] \o " Updated"

\* The description check() builds from a SiteResultDiff d.
Description(d) ==
  IF d.status # None
  THEN IF d.diff # None
       THEN "New status '" \o StatusDisplay(d.status[1])
              \o "' and site content changed\n" \o d.diff[1]
       ELSE "New status '" \o StatusDisplay(d.status[1]) \o "'"
  ELSE IF d.diff # None
       THEN "Site content changed\n" \o d.diff[1]
       ELSE "Site content changed"

\* The notify-send process check() spawns.
NotifyCommand(title, body) ==
  [program |-> "notify-send", args |-> <<"-i", "appointment", title>>]

\* Variant of MapDiff: a missing prev is diffed as an empty 200 result.
MapDiff_Default(prev, new) ==
  Some(SiteResultDiff(IF prev = None THEN SiteResult(200, <<>>) ELSE prev[1], new))

\* prev.as_ref().map(|result| result.diff(&new_result))
MapDiff(prev, new) ==
  IF prev = None THEN None ELSE Some(SiteResultDiff(prev[1], new))

\* Variant of Notifies: is_different() is not asked.
Notifies_Any(d) == d # None

\* if let Some(diff) = diff { if diff.is_different() { ... } }
Notifies(d) == d # None /\ is_different(d[1])

\* Positions of check(): not running, awaiting send(), awaiting bytes(),
\* awaiting the notifier's wait(), returned.
PCs == {"idle", "send", "bytes", "wait", "done"}

\* What check() returned: nothing yet, Ok(()), or the error of one of its
\* four `?`.
Rets == {"Pending", "Ok", "ErrSend", "ErrBytes", "ErrSpawn", "ErrWait"}

\* main.rs:167-184: every SiteState starts with its name and href and
\* without a result; its actor has an empty mailbox.
Init ==
  /\ name = [s \in Sites |-> SITES[s].name]
  /\ href = [s \in Sites |-> SITES[s].href]
  /\ mailbox = [s \in Sites |-> 0]
  /\ actor_stopped = [s \in Sites |-> FALSE]
  /\ tickDuring = [s \in Sites |-> FALSE]
  /\ second = [s \in Sites |-> "no"]
  /\ result = [s \in Sites |-> None]
  /\ pc = [s \in Sites |-> "idle"]
  /\ response_status = [s \in Sites |-> None]
  /\ new_result = [s \in Sites |-> None]
  /\ diff = [s \in Sites |-> None]
  /\ description = [s \in Sites |-> None]
  /\ ret = [s \in Sites |-> "Pending"]
  /\ notified = [s \in Sites |-> <<>>]
  /\ before = [s \in Sites |-> None]
  /\ lastFetch = [s \in Sites |-> None]
  /\ prevFetch = [s \in Sites |-> None]

\* check() is entered and sends the request.
EnterCheck(s) ==
  /\ pc[s] = "idle"
  /\ pc' = [pc EXCEPT ![s] = "send"]
  /\ before' = [before EXCEPT ![s] = result[s]]
  /\ prevFetch' = [prevFetch EXCEPT ![s] = lastFetch[s]]
  /\ UNCHANGED <<result, response_status, new_result, diff, description, ret,
                 notified, lastFetch>>

\* handle_message(Check) calls check().
CheckStart(s) == EnterCheck(s) /\ UNCHANGED actor

\* Variant of SendErr: the stored result was taken before the fetch.
SendErr_TakesFirst(s) ==
  /\ UNCHANGED actor
  /\ pc[s] = "send"
  /\ pc' = [pc EXCEPT ![s] = "done"]
  /\ ret' = [ret EXCEPT ![s] = "ErrSend"]
  /\ result' = [result EXCEPT ![s] = None]
  /\ UNCHANGED <<response_status, new_result, diff, description,
                 notified, before, lastFetch, prevFetch>>

\* send().await? fails: check() returns the error.
SendErr(s) ==
  /\ UNCHANGED actor
  /\ pc[s] = "send"
  /\ pc' = [pc EXCEPT ![s] = "done"]
  /\ ret' = [ret EXCEPT ![s] = "ErrSend"]
  /\ UNCHANGED <<result, response_status, new_result, diff, description,
                 notified, before, lastFetch, prevFetch>>

\* send().await? yields a response with the given status.
SendOk(s, status) ==
  /\ UNCHANGED actor
  /\ pc[s] = "send"
  /\ pc' = [pc EXCEPT ![s] = "bytes"]
  /\ response_status' = [response_status EXCEPT ![s] = Some(status)]
  /\ UNCHANGED <<result, new_result, diff, description, ret, notified, before,
                 lastFetch, prevFetch>>

\* response.bytes().await? fails: check() returns the error.
BytesErr(s) ==
  /\ UNCHANGED actor
  /\ pc[s] = "bytes"
  /\ pc' = [pc EXCEPT ![s] = "done"]
  /\ ret' = [ret EXCEPT ![s] = "ErrBytes"]
  /\ response_status' = [response_status EXCEPT ![s] = None]
  /\ UNCHANGED <<result, new_result, diff, description, notified, before,
                 lastFetch, prevFetch>>

\* response.bytes().await? yields bytes; check() runs on to its next await
\* or to its return.  spawn_ok is whether spawning notify-send succeeds.
BytesOk(s, bytes, spawn_ok) ==
  /\ UNCHANGED actor
  /\ pc[s] = "bytes"
  /\ LET new == SiteResult(response_status[s][1], bytes)
         prev == result[s]
         d == MapDiff(prev, new)
     IN /\ response_status' = [response_status EXCEPT ![s] = None]
        /\ new_result' = [new_result EXCEPT ![s] = Some(new)]
        /\ lastFetch' = [lastFetch EXCEPT ![s] = Some(new)]
        /\ diff' = [diff EXCEPT ![s] = d]
        /\ IF Notifies(d)
           THEN /\ description' = [description EXCEPT ![s] = Some(Description(d[1]))]
                /\ notified' = [notified EXCEPT ![s] =
                                  Append(@, NotifyCommand(Title(s), Description(d[1])))]
                /\ result' = [result EXCEPT ![s] = None]
                /\ IF spawn_ok
                   THEN /\ pc' = [pc EXCEPT ![s] = "wait"]
                        /\ UNCHANGED ret
                   ELSE /\ pc' = [pc EXCEPT ![s] = "done"]
                        /\ ret' = [ret EXCEPT ![s] = "ErrSpawn"]
           ELSE /\ result' = [result EXCEPT ![s] = Some(new)]
                /\ pc' = [pc EXCEPT ![s] = "done"]
                /\ ret' = [ret EXCEPT ![s] = "Ok"]
                /\ UNCHANGED <<description, notified>>
  /\ UNCHANGED <<before, prevFetch>>

\* Variant of WaitOk: the results of all sites are one shared value.
WaitOk_Shared(s) ==
  /\ UNCHANGED actor
  /\ pc[s] = "wait"
  /\ result' = [t \in Sites |-> new_result[s]]
  /\ pc' = [pc EXCEPT ![s] = "done"]
  /\ ret' = [ret EXCEPT ![s] = "Ok"]
  /\ UNCHANGED <<response_status, new_result, diff, description, notified,
                 before, lastFetch, prevFetch>>

\* wait().await? succeeds: check() stores new_result and returns Ok(()).
WaitOk(s) ==
  /\ UNCHANGED actor
  /\ pc[s] = "wait"
  /\ result' = [result EXCEPT ![s] = new_result[s]]
  /\ pc' = [pc EXCEPT ![s] = "done"]
  /\ ret' = [ret EXCEPT ![s] = "Ok"]
  /\ UNCHANGED <<response_status, new_result, diff, description, notified,
                 before, lastFetch, prevFetch>>

\* wait().await? fails: check() returns the error.
WaitErr(s) ==
  /\ UNCHANGED actor
  /\ pc[s] = "wait"
  /\ pc' = [pc EXCEPT ![s] = "done"]
  /\ ret' = [ret EXCEPT ![s] = "ErrWait"]
  /\ UNCHANGED <<result, response_status, new_result, diff, description,
                 notified, before, lastFetch, prevFetch>>

\* check() has returned and the locals of the call are dropped.
LeaveCheck(s) ==
  /\ pc[s] = "done"
  /\ pc' = [pc EXCEPT ![s] = "idle"]
  /\ new_result' = [new_result EXCEPT ![s] = None]
  /\ diff' = [diff EXCEPT ![s] = None]
  /\ description' = [description EXCEPT ![s] = None]
  /\ ret' = [ret EXCEPT ![s] = "Pending"]
  /\ notified' = [notified EXCEPT ![s] = <<>>]
  /\ before' = [before EXCEPT ![s] = None]
  /\ prevFetch' = [prevFetch EXCEPT ![s] = None]
  /\ UNCHANGED <<result, response_status, lastFetch>>

\* handle_message passes on what check() returned.
Return(s) == LeaveCheck(s) /\ UNCHANGED actor

\* The check cycles of the SiteState CheckedSite, its fetches returning
\* any status of Statuses and any body of Bodies.
Next ==
  \/ CheckStart(CheckedSite)
  \/ SendErr(CheckedSite)
  \/ \E status \in Statuses : SendOk(CheckedSite, status)
  \/ BytesErr(CheckedSite)
  \/ \E bytes \in Bodies, spawn_ok \in BOOLEAN : BytesOk(CheckedSite, bytes, spawn_ok)
  \/ WaitOk(CheckedSite)
  \/ WaitErr(CheckedSite)
  \/ Return(CheckedSite)

Spec == Init /\ [][Next]_vars

\* ------------------------------------------------------- the sites' actors
\* Statuses and bodies the fetches of SchedSpec return.
SchedStatuses == {200}

SchedBodies == {<<"a">>, <<"b">>}

\* The sites whose timers and actors SchedSpec runs: the first two of SITES.
SchedSites == {s \in Sites : s <= CheckedSite + 1}

\* A check of site s is running in the site's handler.
InFlight(s) == pc[s] # "idle"

\* handle.every(30 min, || SiteMessage::Check): the timer of site s fires
\* and puts a Check message into the mailbox of the site's actor.
Tick(s) ==
  /\ mailbox[s] < MaxQueue
  /\ mailbox' = [mailbox EXCEPT ![s] = @ + 1]
  /\ tickDuring' = [tickDuring EXCEPT ![s] = @ \/ InFlight(s)]
  /\ UNCHANGED <<result, pc, response_status, new_result, diff, description,
                 ret, notified, before, lastFetch, prevFetch, name, href,
                 actor_stopped, second>>

\* Variant of Deliver: one handler runs at a time over all sites.
Deliver_OneAtATime(s) ==
  /\ ~actor_stopped[s]
  /\ mailbox[s] > 0
  /\ \A t \in Sites : pc[t] = "idle"
  /\ EnterCheck(s)
  /\ mailbox' = [mailbox EXCEPT ![s] = @ - 1]
  /\ UNCHANGED <<name, href, actor_stopped, tickDuring, second>>

\* The actor of site s, its handler not running, takes the next message of
\* its mailbox and calls the handler given to spawn_child, which calls
\* state.handle_message(msg) and so check().
Deliver(s) ==
  /\ ~actor_stopped[s]
  /\ mailbox[s] > 0
  /\ EnterCheck(s)
  /\ mailbox' = [mailbox EXCEPT ![s] = @ - 1]
  /\ UNCHANGED <<name, href, actor_stopped, tickDuring, second>>

\* handle_message returns what check() returned to the actor.  After an
\* error the actor either goes on with its mailbox or stops (stops).
HandlerReturn(s, stops) ==
  /\ LeaveCheck(s)
  /\ stops => ret[s] # "Ok"
  /\ actor_stopped' = [actor_stopped EXCEPT ![s] = stops]
  /\ second' = [second EXCEPT ![s] =
                  IF tickDuring[s]
                  THEN IF new_result[s] # None THEN "fetched" ELSE "failed"
                  ELSE "no"]
  /\ tickDuring' = [tickDuring EXCEPT ![s] = FALSE]
  /\ UNCHANGED <<name, href, mailbox>>

\* The sites of SchedSites, each with its timer and its actor, the fetches
\* returning any status of SchedStatuses and any body of SchedBodies.
SchedNext ==
  \/ \E s \in SchedSites : Tick(s)
  \/ \E s \in SchedSites : Deliver(s)
  \/ \E s \in SchedSites : SendErr(s)
  \/ \E s \in SchedSites, status \in SchedStatuses : SendOk(s, status)
  \/ \E s \in SchedSites : BytesErr(s)
  \/ \E s \in SchedSites, bytes \in SchedBodies, spawn_ok \in BOOLEAN : BytesOk(s, bytes, spawn_ok)
  \/ \E s \in SchedSites : WaitOk(s)
  \/ \E s \in SchedSites : WaitErr(s)
  \/ \E s \in SchedSites, stops \in BOOLEAN : HandlerReturn(s, stops)

SchedSpec == Init /\ [][SchedNext]_vars

TypeOK ==
  /\ pc \in [Sites -> PCs]
  /\ ret \in [Sites -> Rets]
  /\ \A s \in Sites : Len(result[s]) <= 1 /\ Len(notified[s]) <= 1

\* ------------------------------------------------------------ properties
\* A check has returned after a successful fetch.
FetchedAndDone(s) == pc[s] = "done" /\ new_result[s] # None

\* A check has returned without having fetched a response.
FetchFailed(s) == pc[s] = "done" /\ new_result[s] = None

\* The opcodes of the line diff of the lossily decoded bodies of P and N.
LineOps(P, N) == diff_lines(from_utf8_lossy(P.bytes), from_utf8_lossy(N.bytes))

\* The line diff of P and N has an opcode that is not Equal.
HasNonEqualOp(P, N) ==
  \E i \in DOMAIN LineOps(P, N) : LineOps(P, N)[i].op # "Equal"

\* N differs from P in status or in decoded line content.
Differs(P, N) ==
  \/ P.status # N.status
  \/ lines(from_utf8_lossy(P.bytes)) # lines(from_utf8_lossy(N.bytes))

Range(q) == {q[i] : i \in DOMAIN q}

\* C1: a check whose fetch fails (send() or bytes() errs) returns an error,
\* leaves the stored snapshot as it was when the check was entered and
\* spawns no notifier; the snapshot is also untouched while the fetch is
\* awaited.
C1_FailedFetchPreservesState ==
  \A s \in Sites :
    /\ pc[s] \in {"send", "bytes"} => result[s] = before[s] /\ notified[s] = <<>>
    /\ FetchFailed(s) =>
         /\ ret[s] \in {"ErrSend", "ErrBytes"}
         /\ result[s] = before[s]
         /\ notified[s] = <<>>

\* C1 witness: a fetch failed in a check of a site that had a snapshot.
C1_Witness ==
  \E s \in Sites : FetchFailed(s) /\ before[s] # None /\ ret[s] = "ErrBytes"

\* C2: whenever no check is in progress, the stored snapshot is the most
\* recent successful fetch, and is absent only if no fetch ever succeeded.
C2_SnapshotIsLastFetch ==
  \A s \in Sites : pc[s] \in {"idle", "done"} => result[s] = lastFetch[s]

\* C3: when the fetch succeeded and the notifier failed (spawn or wait), the
\* stored snapshot after check() is the newly fetched one.
C3_NotifyFailureKeepsNewSnapshot ==
  \A s \in Sites :
    pc[s] = "done" /\ ret[s] \in {"ErrSpawn", "ErrWait"} =>
      result[s] = new_result[s]

\* C4: a check that fetches F2, F1 being the successful fetch before it,
\* spawns a notifier if F2 differs from F1 in status or decoded line content
\* and spawns none if it does not.
C4_EveryChangeReported ==
  \A s \in Sites :
    FetchedAndDone(s) /\ prevFetch[s] # None =>
      (Len(notified[s]) = 1 <=> Differs(prevFetch[s][1], new_result[s][1]))

\* C5: a check entered without a stored snapshot whose fetch succeeds spawns
\* no notifier, never waits for one, returns Ok and stores the fetched
\* snapshot.
C5_FirstCheckBaseline ==
  \A s \in Sites :
    /\ pc[s] = "wait" => before[s] # None
    /\ FetchedAndDone(s) /\ before[s] = None =>
         /\ notified[s] = <<>>
         /\ ret[s] = "Ok"
         /\ result[s] = new_result[s]

\* C5 witness: a first check fetched a non-empty body with a non-200 status.
C5_Witness ==
  \E s \in Sites :
    /\ FetchedAndDone(s) /\ before[s] = None
    /\ new_result[s][1].status # 200 /\ new_result[s][1].bytes # <<>>

\* C6: no check spawns more than one notifier; a check with prior snapshot
\* P that fetched N spawns exactly one if P.status # N.status or the line
\* diff of the decoded bodies has a non-equal opcode, and none otherwise.
C6_NotifyExactlyWhenDifferent ==
  \A s \in Sites :
    /\ Len(notified[s]) <= 1
    /\ pc[s] \in {"wait", "done"} /\ new_result[s] # None /\ before[s] # None =>
         LET P == before[s][1]
             N == new_result[s][1]
         IN Len(notified[s]) = 1 <=> (P.status # N.status \/ HasNonEqualOp(P, N))

\* C6 witness: a check spawned a notifier for a content-only change.
C6_Witness ==
  \E s \in Sites :
    /\ FetchedAndDone(s) /\ before[s] # None /\ Len(notified[s]) = 1
    /\ before[s][1].status = new_result[s][1].status

\* C7: every notifier spawned carries the title and the description built
\* by the check.
C7_NotificationCarriesTitleAndBody ==
  \A s \in Sites :
    \A i \in DOMAIN notified[s] :
      /\ Title(s) \in Range(notified[s][i].args)
      /\ description[s] # None
      /\ description[s][1] \in Range(notified[s][i].args)

\* The description the three shapes give for status change S and rendered
\* diff D, the status being rendered by Shown.
Composed(S, D, Shown(_)) ==
  IF S # None /\ D # None
    THEN "New status '" \o Shown(S[1]) \o "' and site content changed\n" \o D[1]
  ELSE IF S # None THEN "New status '" \o Shown(S[1]) \o "'"
  ELSE "Site content changed\n" \o D[1]

\* The status code alone.
CodeOnly(status) == ToString(status)

\* The status code, a space and its reason phrase.
CodeAndReason(status) ==
  ToString(status) \o " " \o
    (CASE status = 200 -> "OK"
       [] status = 404 -> "Not Found"
       [] status = 500 -> "Internal Server Error")

\* C8 as stated: the description has the three shapes with S rendered as the
\* status code alone; prior (200, "A"), new (404, "A") gives "New status
\* '404'" and prior (200, "a"), new (500, "b") gives "New status '500' and
\* site content changed\nReplaced:\na\nwith\nb\n\n".
C8_BodyWithBareCode ==
  \A s \in Sites :
    description[s] # None =>
      /\ description[s][1] = Composed(diff[s][1].status, diff[s][1].diff, CodeOnly)
      /\ (before[s] = Some(SiteResult(200, <<"A">>))
            /\ new_result[s] = Some(SiteResult(404, <<"A">>)))
           => description[s][1] = "New status '404'"
      /\ (before[s] = Some(SiteResult(200, <<"a">>))
            /\ new_result[s] = Some(SiteResult(500, <<"b">>)))
           => description[s][1] =
                "New status '500' and site content changed\nReplaced:\na\nwith\nb\n\n"

\* C8 amended: the description has the three shapes with S rendered as the
\* status code, a space and the canonical reason phrase; prior (200, "A"),
\* new (404, "A") gives "New status '404 Not Found'" and prior (200, "a"),
\* new (500, "b") gives "New status '500 Internal Server Error' and site
\* content changed\nReplaced:\na\nwith\nb\n\n".
C8_BodyComposition ==
  \A s \in Sites :
    description[s] # None =>
      /\ description[s][1] = Composed(diff[s][1].status, diff[s][1].diff, CodeAndReason)
      /\ (before[s] = Some(SiteResult(200, <<"A">>))
            /\ new_result[s] = Some(SiteResult(404, <<"A">>)))
           => description[s][1] = "New status '404 Not Found'"
      /\ (before[s] = Some(SiteResult(200, <<"a">>))
            /\ new_result[s] = Some(SiteResult(500, <<"b">>)))
           => description[s][1] =
                "New status '500 Internal Server Error' and site content changed\nReplaced:\na\nwith\nb\n\n"

\* C8 witness: the description of prior (200, "a"), new (500, "b") was built.
C8_Witness ==
  \E s \in Sites :
    /\ description[s] # None
    /\ before[s] = Some(SiteResult(200, <<"a">>))
    /\ new_result[s] = Some(SiteResult(500, <<"b">>))

\* C9: diffing a snapshot against an identical copy of itself yields status
\* None and diff None, so is_different() is false.
C9_NoOpDiff ==
  \A s \in Sites :
    diff[s] # None /\ before[s] = new_result[s] =>
      /\ diff[s][1].status = None
      /\ diff[s][1].diff = None
      /\ ~is_different(diff[s][1])

\* C9 witness: a snapshot of several lines was diffed against a copy of
\* itself.
C9_Witness ==
  \E s \in Sites :
    /\ diff[s] # None /\ before[s] = new_result[s]
    /\ Len(lines(from_utf8_lossy(new_result[s][1].bytes))) >= 2

\* C10: diff() returns status = Some(N.status) exactly when P.status #
\* N.status, and diff = Some(rendered non-equal opcodes) exactly when the
\* line diff of the decoded bodies has a non-equal opcode; status depends on
\* the statuses only and diff on the bodies only.
C10_DiffResultFields ==
  \A s \in Sites :
    diff[s] # None =>
      LET P == before[s][1]
          N == new_result[s][1]
          d == diff[s][1]
      IN /\ d.status = (IF P.status # N.status THEN Some(N.status) ELSE None)
         /\ d.diff # None <=> HasNonEqualOp(P, N)
         /\ d.diff # None => d.diff[1] = render_diff(NonEqual(LineOps(P, N)))
         /\ \A st \in Statuses :
              d.diff = DiffContent(SiteResult(st, P.bytes), SiteResult(200, N.bytes))
         /\ \A b \in {<<>>, <<"a">>} :
              d.status = DiffStatus(SiteResult(P.status, b), SiteResult(N.status, <<"b">>))

\* C10 witness: a diff found a new status and no content change between
\* bodies that differ as bytes.
C10_Witness ==
  \E s \in Sites :
    /\ diff[s] # None
    /\ diff[s][1].status # None /\ diff[s][1].diff = None
    /\ before[s][1].bytes # new_result[s][1].bytes

\* The block render_diff is to give for one opcode.
Block(o) ==
  CASE o.op = "Equal" -> ""
    [] o.op = "Insert" -> "Added:\n" \o join(o.a, "\n") \o "\n\n"
    [] o.op = "Remove" -> "Removed:\n" \o join(o.a, "\n") \o "\n\n"
    [] o.op = "Replace" ->
         "Replaced:\n" \o join(o.a, "\n") \o "\nwith\n" \o join(o.b, "\n") \o "\n\n"

RECURSIVE Blocks(_)
\* The blocks of the opcodes ops, first opcode first.
Blocks(ops) == IF ops = <<>> THEN "" ELSE Block(Head(ops)) \o Blocks(Tail(ops))

Line1Line2 == <<"l", "i", "n", "e", "1", NL, "l", "i", "n", "e", "2">>

Line1Line3 == <<"l", "i", "n", "e", "1", NL, "l", "i", "n", "e", "3">>

\* C11: the rendered diff is the concatenation, in opcode order, of one
\* Added/Removed/Replaced block per non-equal opcode of the line diff, equal
\* runs giving nothing; "line1\nline2" against "line1\nline3" renders
\* "Replaced:\nline2\nwith\nline3\n\n".
C11_DiffRendering ==
  \A s \in Sites :
    diff[s] # None /\ diff[s][1].diff # None =>
      LET P == before[s][1]
          N == new_result[s][1]
      IN /\ diff[s][1].diff[1] = Blocks(LineOps(P, N))
         /\ P.bytes = Line1Line2 /\ N.bytes = Line1Line3 =>
              diff[s][1].diff[1] = "Replaced:\nline2\nwith\nline3\n\n"

\* C11 witness: a diff of two non-equal opcodes around an equal run was
\* rendered.
C11_Witness ==
  \E s \in Sites :
    /\ diff[s] # None /\ diff[s][1].diff # None
    /\ Len(NonEqual(LineOps(before[s][1], new_result[s][1]))) >= 2
    /\ Len(LineOps(before[s][1], new_result[s][1])) >= 3

\* C12: when a tick fired while a check that fetched F1 was in flight and
\* the check started for that tick has fetched F2 and returned, the stored
\* snapshot is F1 or F2, and not empty.
C12_OverlappingTicksFinalSnapshot ==
  \A s \in Sites :
    pc[s] = "done" /\ second[s] = "fetched" /\ new_result[s] # None =>
      /\ result[s] # None
      /\ result[s] \in {prevFetch[s], new_result[s]}

C16_BaselinedNeverLeft ==
  \A s \in Sites :
    pc[s] = "done" =>
      /\ before[s] # None => result[s] # None
      /\ ret[s] \in {"ErrSend", "ErrBytes", "ErrSpawn", "ErrWait"} =>
           (result[s] = None <=> before[s] = None)

\* C17: no step changes the name or href of a site, and the stored snapshot
\* of a site changes only in a step of that site's own check() (at the
\* return of bytes() or of the notifier's wait()).
C17_NoSharedState ==
  [][\A s \in Sites :
       /\ name'[s] = name[s]
       /\ href'[s] = href[s]
       /\ result'[s] # result[s] => (pc[s] \in {"bytes", "wait"} /\ pc'[s] # pc[s])]_vars

\* C17 witness: a check of one site has failed while another site holds a
\* different snapshot.
C17_Witness ==
  \E s, t \in Sites :
    /\ s # t
    /\ result[s] # None /\ result[t] # None /\ result[s] # result[t]
    /\ pc[t] = "done" /\ ret[t] = "ErrSend"

\* C18: whenever check() has built a description, the diff had a status
\* change or a content diff, so the description is not the bare "Site
\* content changed".
C18_FallbackUnreachable ==
  \A s \in Sites :
    description[s] # None =>
      /\ diff[s] # None
      /\ diff[s][1].status # None \/ diff[s][1].diff # None
      /\ description[s][1] # "Site content changed"

\* C18 witness: a description was built for a content change without a
\* status change.
C18_Witness ==
  \E s \in Sites :
    /\ description[s] # None /\ diff[s][1].status = None
    /\ pc[s] = "wait"

====
